---- MODULE Spec2Model ----
(***************************************************************************)
(* Model of osm2lanes (python/osm2lanes/core.py): Road.parse, which turns  *)
(* a set of OpenStreetMap tags and a driving side into the list of lanes   *)
(* of the road from left to right.                                         *)
(*                                                                         *)
(* A Road is built (its tags are set one by one), then parse runs its      *)
(* sections in the order of the code: driveways, cycleways, bus lanes,     *)
(* parking lanes, sidewalks.  The loops "for side in sides" run over a     *)
(* Python set, whose iteration order is not fixed: every section chooses   *)
(* the order of the two sides nondeterministically.                        *)
(***************************************************************************)
EXTENDS Integers, Sequences, FiniteSets, TLC

\* ------------------------------------------------------------------ bounds

\* The largest value of the lanes tag that is explored ("0" .. MaxLanes).
MaxLanes == 4

\* The largest number of tags a road carries.
MaxTags == 4

\* ------------------------------------------------------------- data model

\* Python's None: an absent tag (dict.get), an absent direction or designation.
None == "<None>"

\* DrivingSide enum values.
RIGHT == "right"
LEFT == "left"
DrivingSide == {RIGHT, LEFT}

\* Direction enum values.
FORWARD == "forward"
BACKWARD == "backward"
BOTH == "both"

\* LaneType enum values used by parse.
TRAVEL == "travel"
PARKING == "parking"
SHOULDER == "shoulder"

\* LaneDesignation enum values used by parse.
FOOT == "foot"
BICYCLE == "bicycle"
MOTOR == "motor_vehicle"
BUS == "bus"

\* Lane(type_, direction, designation): the dataclass constructor.
Lane(type_, direction, designation) ==
    [type_ |-> type_, direction |-> direction, designation |-> designation]

\* The local sets of parse.
sides == {"left", "right"}
parking_values == {"parallel", "diagonal"}
track_values == {"track", "opposite_track"}

\* The orders in which a loop over the set sides can visit its members.
SideOrders == {<<"left", "right">>, <<"right", "left">>}

\* The tag keys parse reads.
TagKeys ==
    {"oneway", "lanes", "centre_turn_lane", "sidewalk",
     "busway", "busway:both", "parking:lane:both"}
    \cup {"cycleway:" \o s : s \in sides}
    \cup {"busway:" \o s : s \in sides}
    \cup {"parking:lane:" \o s : s \in sides}

\* The values explored for each key: every value parse compares a tag with,
\* and one value it compares with nothing.
TagValues(k) ==
    CASE k = "oneway" -> {"yes", "no"}
      [] k = "lanes" -> {ToString(n) : n \in 0..MaxLanes}
      [] k = "centre_turn_lane" -> {"yes"}
      [] k = "sidewalk" -> {"both", "none", "left", "right", "separate"}
      [] k \in {"cycleway:left", "cycleway:right"} ->
            {"lane", "track", "opposite_track"}
      [] k \in {"busway", "busway:both", "busway:left", "busway:right"} ->
            {"lane"}
      [] OTHER -> {"parallel", "diagonal", "perpendicular"}

\* int(s) for the decimal strings of the lanes tag.
int(s) == CHOOSE n \in 0..MaxLanes : ToString(n) = s

\* [x] * k: Python's list repetition, empty when k <= 0.
Repeat(x, k) == [i \in 1..k |-> x]

\* ------------------------------------------------------------------ state

VARIABLES
    road,      \* the Road: [tags, driving_side]
    pc,        \* the section of parse that runs next
    lanes,     \* the local variable lanes of parse
    before,    \* history: lanes as the last section found it
    nLeft,     \* history: how many lanes the overlay sections put on the left
    nRight     \* history: how many lanes the overlay sections put on the right

vars == <<road, pc, lanes, before, nLeft, nRight>>

\* self.tags.get(key)
Get(self, key) == self.tags[key]

\* ------------------------------------------------------------ Road methods

\* A seeded fault: the lane is appended whatever the side.
add_lane_append(ls, lane, side) == ls \o <<lane>>

add_lane(ls, lane, side) ==
    IF side = "left" THEN <<lane>> \o ls ELSE ls \o <<lane>>

\* A seeded fault: the driving side is not looked at.
get_direction_right_hand(self, side, is_inverted) ==
    IF side = "right"
    THEN (IF is_inverted THEN BACKWARD ELSE FORWARD)
    ELSE (IF is_inverted THEN FORWARD ELSE BACKWARD)

get_direction(self, side, is_inverted) ==
    IF \/ side = "right" /\ self.driving_side = RIGHT
       \/ side = "left" /\ self.driving_side = LEFT
    THEN (IF is_inverted THEN BACKWARD ELSE FORWARD)
    ELSE (IF is_inverted THEN FORWARD ELSE BACKWARD)

\* A seeded fault: both lanes are appended on the right.
add_both_lanes_appended(self, ls, type_, designation) ==
    IF type_ = SHOULDER \/ (type_ = TRAVEL /\ designation = FOOT)
    THEN ls \o <<Lane(type_, None, designation), Lane(type_, None, designation)>>
    ELSE ls \o <<Lane(type_, get_direction(self, "left", FALSE), designation),
                 Lane(type_, get_direction(self, "right", FALSE), designation)>>

\* A seeded fault: the branch for shoulders and sidewalks is missing.
add_both_lanes_directed(self, ls, type_, designation) ==
    <<Lane(type_, get_direction(self, "left", FALSE), designation)>> \o ls
        \o <<Lane(type_, get_direction(self, "right", FALSE), designation)>>

add_both_lanes(self, ls, type_, designation) ==
    IF type_ = SHOULDER \/ (type_ = TRAVEL /\ designation = FOOT)
    THEN <<Lane(type_, None, designation)>> \o ls
            \o <<Lane(type_, None, designation)>>
    ELSE <<Lane(type_, get_direction(self, "left", FALSE), designation)>> \o ls
            \o <<Lane(type_, get_direction(self, "right", FALSE), designation)>>

get_extra_lanes(self) ==
    (IF Get(self, "busway") = "lane" \/ Get(self, "busway:both") = "lane"
     THEN 2 ELSE 0)
    + (IF Get(self, "busway:right") = "lane" \/ Get(self, "busway:left") = "lane"
       THEN 1 ELSE 0)

\* ---------------------------------------------------- parse: the driveways

oneway(self) == Get(self, "oneway") = "yes"

travel_lane_number(self) ==
    LET total_lane_number == Get(self, "lanes")
        n == IF total_lane_number # None
             THEN int(total_lane_number) - get_extra_lanes(self)
             ELSE 2
    IN  IF n = 1 /\ ~oneway(self) THEN 2 ELSE n

\* A seeded fault: the half is rounded down on either driving side.
half_rounded_down(self) ==
    LET n == travel_lane_number(self)
    IN  IF n >= 0 THEN n \div 2 ELSE -((-n) \div 2)

\* int(x / 2.0) truncates towards zero; math.ceil(x / 2.0) rounds up.
half(self) ==
    LET n == travel_lane_number(self)
    IN  IF self.driving_side = RIGHT
        THEN (IF n >= 0 THEN n \div 2 ELSE -((-n) \div 2))
        ELSE -((-n) \div 2)

Driveways(self) ==
    IF oneway(self)
    THEN Repeat(Lane(TRAVEL, FORWARD, MOTOR), travel_lane_number(self))
    ELSE Repeat(Lane(TRAVEL, get_direction(self, "left", FALSE), MOTOR),
                half(self))
         \o (IF Get(self, "centre_turn_lane") = "yes"
             THEN <<Lane(TRAVEL, BOTH, MOTOR)>> ELSE <<>>)
         \o Repeat(Lane(TRAVEL, get_direction(self, "right", FALSE), MOTOR),
                   travel_lane_number(self) - half(self))

\* ---------------------------------------------------- parse: the cycleways

\* The lane one turn of the cycleway loop builds for a side, as a sequence:
\* empty when neither branch of the loop body is taken.
cycleway_lane(self, side) ==
    IF Get(self, "cycleway:" \o side) = "lane"
    THEN <<Lane(TRAVEL,
                IF oneway(self) THEN FORWARD
                ELSE get_direction(self, side, FALSE),
                BICYCLE)>>
    ELSE IF Get(self, "cycleway:" \o side) \in track_values
    THEN <<Lane(TRAVEL, BOTH, BICYCLE)>>
    ELSE <<>>

\* "for side in sides" visiting the sides in the given order; new_lane[side] is
\* the lane the loop body builds for the side, which add_lane then adds.
SideLoop(ls, order, new_lane) ==
    LET turn(l, side) ==
            IF new_lane[side] # <<>>
            THEN add_lane(l, new_lane[side][1], side)
            ELSE l
    IN  turn(turn(ls, order[1]), order[2])

Cycleways(self, ls, order) ==
    SideLoop(ls, order, [side \in sides |-> cycleway_lane(self, side)])

\* ---------------------------------------------------- parse: the bus lanes

bus_both(self) ==
    Get(self, "busway") = "lane" \/ Get(self, "busway:both") = "lane"

bus_lane(self, side) ==
    IF Get(self, "busway:" \o side) = "lane"
    THEN <<Lane(TRAVEL, get_direction(self, side, FALSE), BUS)>>
    ELSE <<>>

BusLanes(self, ls, order) ==
    SideLoop(IF bus_both(self) THEN add_both_lanes(self, ls, TRAVEL, BUS)
             ELSE ls,
             order, [side \in sides |-> bus_lane(self, side)])

\* ------------------------------------------------ parse: the parking lanes

parking_both(self) == Get(self, "parking:lane:both") = "parallel"

parking_lane(self, side) ==
    IF Get(self, "parking:lane:" \o side) \in parking_values
    THEN <<Lane(PARKING, get_direction(self, side, FALSE), MOTOR)>>
    ELSE <<>>

ParkingLanes(self, ls, order) ==
    SideLoop(IF parking_both(self)
             THEN add_both_lanes(self, ls, PARKING, MOTOR)
             ELSE ls,
             order, [side \in sides |-> parking_lane(self, side)])

\* ---------------------------------------------------- parse: the sidewalks

is_rural(self) ==
    /\ Get(self, "sidewalk") = None
    /\ (Get(self, "lanes") = None \/ Get(self, "lanes") = "2")
    /\ Get(self, "oneway") = None

sidewalk_lane(self, side) ==
    IF Get(self, "sidewalk") = side
    THEN <<Lane(TRAVEL, None, FOOT)>>
    ELSE <<>>

\* Whether the sidewalk section takes its last branch, the loop over sides.
sidewalk_loop(self) ==
    /\ Get(self, "sidewalk") # "both"
    /\ ~(Get(self, "sidewalk") = "none" \/ is_rural(self))

Sidewalks(self, ls, order) ==
    IF Get(self, "sidewalk") = "both"
    THEN add_both_lanes(self, ls, TRAVEL, FOOT)
    ELSE IF Get(self, "sidewalk") = "none" \/ is_rural(self)
    THEN add_both_lanes(self, ls, SHOULDER, None)
    ELSE SideLoop(ls, order, [side \in sides |-> sidewalk_lane(self, side)])

\* The whole of parse, its four loops visiting the sides in the given orders.
parse(self, o1, o2, o3, o4) ==
    Sidewalks(self,
        ParkingLanes(self,
            BusLanes(self, Cycleways(self, Driveways(self), o1), o2),
            o3),
        o4)

\* How many lanes a section puts on a side: one when its both-sides branch is
\* taken, one when its loop adds a lane on that side.
Added(both, lane) == (IF both THEN 1 ELSE 0) + Len(lane)

\* ------------------------------------------------------ parse: its sections

\* A seeded fault: the cycleways section moved behind the parking lanes.
Sections_cycleways_late ==
    <<"driveways", "bus", "parking", "cycleways", "sidewalks">>

\* The sections of parse, in the order of the code.
Sections == <<"driveways", "cycleways", "bus", "parking", "sidewalks">>

\* The section that follows section s, "done" after the last one (return lanes).
After(s) ==
    LET i == CHOOSE j \in 1..Len(Sections) : Sections[j] = s
    IN  IF i = Len(Sections) THEN "done" ELSE Sections[i + 1]

\* -------------------------------------------------------------- behaviour

NoTags == [k \in TagKeys |-> None]

Present(self) == {k \in TagKeys : self.tags[k] # None}

Init ==
    /\ road \in {[tags |-> NoTags, driving_side |-> d] : d \in DrivingSide}
    /\ pc = "road"
    /\ lanes = <<>>
    /\ before = <<>>
    /\ nLeft = 0
    /\ nRight = 0

\* The caller fills the tags of the Road it builds.
SetTag ==
    /\ pc = "road"
    /\ Cardinality(Present(road)) < MaxTags
    /\ \E k \in TagKeys \ Present(road) : \E v \in TagValues(k) :
          road' = [road EXCEPT !.tags[k] = v]
    /\ UNCHANGED <<pc, lanes, before, nLeft, nRight>>

ParseDriveways ==
    /\ pc = "road"
    /\ lanes' = Driveways(road)
    /\ before' = <<>>
    /\ pc' = After("driveways")
    /\ UNCHANGED <<road, nLeft, nRight>>

ParseCycleways ==
    /\ pc = "cycleways"
    /\ \E order \in SideOrders : lanes' = Cycleways(road, lanes, order)
    /\ before' = lanes
    /\ nLeft' = nLeft + Added(FALSE, cycleway_lane(road, "left"))
    /\ nRight' = nRight + Added(FALSE, cycleway_lane(road, "right"))
    /\ pc' = After("cycleways")
    /\ UNCHANGED road

ParseBusLanes ==
    /\ pc = "bus"
    /\ \E order \in SideOrders : lanes' = BusLanes(road, lanes, order)
    /\ before' = lanes
    /\ nLeft' = nLeft + Added(bus_both(road), bus_lane(road, "left"))
    /\ nRight' = nRight + Added(bus_both(road), bus_lane(road, "right"))
    /\ pc' = After("bus")
    /\ UNCHANGED road

ParseParkingLanes ==
    /\ pc = "parking"
    /\ \E order \in SideOrders : lanes' = ParkingLanes(road, lanes, order)
    /\ before' = lanes
    /\ nLeft' = nLeft + Added(parking_both(road), parking_lane(road, "left"))
    /\ nRight' = nRight + Added(parking_both(road), parking_lane(road, "right"))
    /\ pc' = After("parking")
    /\ UNCHANGED road

ParseSidewalks ==
    /\ pc = "sidewalks"
    /\ \E order \in SideOrders : lanes' = Sidewalks(road, lanes, order)
    /\ before' = lanes
    /\ nLeft' = nLeft + Added(~sidewalk_loop(road),
                              IF sidewalk_loop(road)
                              THEN sidewalk_lane(road, "left") ELSE <<>>)
    /\ nRight' = nRight + Added(~sidewalk_loop(road),
                                IF sidewalk_loop(road)
                                THEN sidewalk_lane(road, "right") ELSE <<>>)
    /\ pc' = After("sidewalks")
    /\ UNCHANGED road

Next ==
    \/ SetTag
    \/ ParseDriveways
    \/ ParseCycleways
    \/ ParseBusLanes
    \/ ParseParkingLanes
    \/ ParseSidewalks

Spec == Init /\ [][Next]_vars

\* ------------------------------------------------------------- properties

IsSidewalk(l) == l.type_ = TRAVEL /\ l.designation = FOOT
IsCycleway(l) == l.type_ = TRAVEL /\ l.designation = BICYCLE
IsBusLane(l) == l.type_ = TRAVEL /\ l.designation = BUS
IsMotorTravel(l) == l.type_ = TRAVEL /\ l.designation = MOTOR
IsParking(l) == l.type_ = PARKING
IsShoulder(l) == l.type_ = SHOULDER
Directed(l) == l.direction \in {FORWARD, BACKWARD}

Max0(k) == IF k > 0 THEN k ELSE 0

\* The road's tags are exactly the given ones.
TagsAre(given) ==
    /\ Present(road) = DOMAIN given
    /\ \A k \in DOMAIN given : road.tags[k] = given[k]

\* The positions of the overlay lanes of the left and of the right side.
LeftSide == 1..nLeft
RightSide == (Len(lanes) - nRight + 1)..Len(lanes)

\* The same road in a region of the other driving side.
OtherSide(self) ==
    [self EXCEPT !.driving_side = IF @ = RIGHT THEN LEFT ELSE RIGHT]

Opposite(d) ==
    IF d = FORWARD THEN BACKWARD ELSE IF d = BACKWARD THEN FORWARD ELSE d

\* Two lane lists agree in length and, position by position, in lane type
\* and designation.
SameLayout(a, b) ==
    /\ Len(a) = Len(b)
    /\ \A i \in 1..Len(a) :
          a[i].type_ = b[i].type_ /\ a[i].designation = b[i].designation

\* Every forward or backward lane of a is the opposite in b; the others are
\* unchanged.
Reversed(a, b) ==
    /\ Len(a) = Len(b)
    /\ \A i \in 1..Len(a) : b[i].direction = Opposite(a[i].direction)

\* C1 as stated: for every tag set, the outputs of parse under the two
\* driving sides have the same length, lane types and designations, and every
\* forward or backward lane has the opposite direction in the other output.
C1_Symmetry ==
    pc = "done" =>
        \A o \in SideOrders :
            LET other == parse(OtherSide(road), o, o, o, o)
            IN  SameLayout(lanes, other) /\ Reversed(lanes, other)

\* C1 amended: the two outputs always have the same length, lane types and
\* designations; the directions are reversed when the road is not one-way and
\* its net travel lane count is even.
C1_SymmetryEvenTwoWay ==
    pc = "done" =>
        \A o \in SideOrders :
            LET other == parse(OtherSide(road), o, o, o, o)
            IN  /\ SameLayout(lanes, other)
                /\ (~oneway(road) /\ travel_lane_number(road) % 2 = 0)
                      => Reversed(lanes, other)

C1_Witness ==
    /\ pc = "done"
    /\ ~oneway(road)
    /\ travel_lane_number(road) = 4
    /\ \E i \in 1..Len(lanes) : IsCycleway(lanes[i]) /\ Directed(lanes[i])
    /\ \E i \in 1..Len(lanes) : IsParking(lanes[i])

\* C2: in the output of parse every sidewalk lane is at the first or the last
\* position, and no cycleway lane lies between a sidewalk lane and the
\* boundary of the sidewalk's side.
C2_BoundaryOrdering ==
    pc = "done" =>
        \A i \in 1..Len(lanes) :
            IsSidewalk(lanes[i]) =>
                /\ i = 1 \/ i = Len(lanes)
                /\ i \in LeftSide =>
                      \A j \in 1..(i - 1) : ~IsCycleway(lanes[j])
                /\ i \in RightSide =>
                      \A j \in (i + 1)..Len(lanes) : ~IsCycleway(lanes[j])

C2_Witness ==
    /\ pc = "done"
    /\ Len(lanes) >= 4
    /\ IsSidewalk(lanes[1]) /\ IsCycleway(lanes[2])
    /\ IsSidewalk(lanes[Len(lanes)])

\* The lanes the bus-lane tags claim: two for a both-sides bus lane, one for
\* each tagged side.
ClaimedByBusTags(self) ==
    (IF bus_both(self) THEN 2 ELSE 0)
    + Cardinality({sd \in sides : Get(self, "busway:" \o sd) = "lane"})

\* The net lane count of the claims: the lanes tag, or 2, less the lanes the
\* bus-lane tags claim; 1 becomes 2 on a road that is not one-way.
NetLaneCount(self) ==
    LET total == IF Get(self, "lanes") = None THEN 2 ELSE int(Get(self, "lanes"))
        net == total - ClaimedByBusTags(self)
    IN  IF net = 1 /\ ~oneway(self) THEN 2 ELSE net

\* C3: the number of forward or backward motor-vehicle travel lanes parse
\* emits equals the net lane count, which is never negative.
C3_CountConservation ==
    pc # "road" =>
        /\ NetLaneCount(road) >= 0
        /\ Cardinality({i \in 1..Len(lanes) :
                           IsMotorTravel(lanes[i]) /\ Directed(lanes[i])})
              = NetLaneCount(road)

\* C4: whatever order each loop over sides visits left and right in, parse
\* returns the one list the order left, right gives.
C4_Determinism ==
    pc = "done" =>
        lanes = parse(road, <<"left", "right">>, <<"left", "right">>,
                      <<"left", "right">>, <<"left", "right">>)

C4_Witness ==
    /\ pc = "done"
    /\ cycleway_lane(road, "left") # <<>>
    /\ cycleway_lane(road, "right") # <<>>
    /\ cycleway_lane(road, "left") # cycleway_lane(road, "right")
    /\ parking_lane(road, "left") # <<>>
    /\ parking_lane(road, "right") # <<>>

StatedOrder(outer, inner) ==
    /\ ~(IsCycleway(outer) /\ IsSidewalk(inner))
    /\ ~((IsParking(outer) \/ IsBusLane(outer)) /\ IsCycleway(inner))

C6_CanonicalOrdering ==
    pc = "done" =>
        /\ \A i, j \in LeftSide : i < j => StatedOrder(lanes[i], lanes[j])
        /\ \A i, j \in RightSide : i < j => StatedOrder(lanes[j], lanes[i])

\* The place of a lane in the cross-section, from the travel core outwards.
Rank(l) ==
    IF IsSidewalk(l) \/ IsShoulder(l) THEN 4
    ELSE IF IsParking(l) THEN 3
    ELSE IF IsBusLane(l) THEN 2
    ELSE IF IsCycleway(l) THEN 1
    ELSE 0

\* C6 amended: read from either boundary inward the output is ordered
\* sidewalk or shoulder, parking, bus, cycleway, then the travel core: on
\* each side every cycleway lane is inside the sidewalk lane and inside every
\* parking lane and every bus lane of that side.
C6_OrderingCyclewayInnermost ==
    pc = "done" =>
        /\ \A i, j \in LeftSide : i < j => Rank(lanes[i]) >= Rank(lanes[j])
        /\ \A i, j \in RightSide : i < j => Rank(lanes[i]) <= Rank(lanes[j])
        /\ \A i \in LeftSide \cup RightSide : Rank(lanes[i]) >= 1
        /\ \A i \in 1..Len(lanes) :
              i \notin LeftSide \cup RightSide => IsMotorTravel(lanes[i])

C6_Witness ==
    /\ pc = "done"
    /\ nLeft = 3 /\ nRight >= 1
    /\ IsSidewalk(lanes[1]) /\ IsParking(lanes[2]) /\ IsCycleway(lanes[3])
    /\ Len(lanes) > nLeft + nRight

\* C7: without a sidewalk tag parse inserts one shoulder lane at each boundary
\* if and only if the lanes tag is absent or 2 and the road is not one-way,
\* one-way meaning oneway=yes.
C7_RuralDefault ==
    (pc = "done" /\ Get(road, "sidewalk") = None) =>
        ((lanes = <<Lane(SHOULDER, None, None)>> \o before
                     \o <<Lane(SHOULDER, None, None)>>)
         <=> (/\ Get(road, "lanes") \in {None, "2"}
              /\ ~oneway(road)))

\* C8: the travel lanes.  One-way: n forward motor lanes.  Otherwise half
\* motor lanes of the direction of the left side, half being n/2 rounded down
\* (driving side right) or up (driving side left), then one motor lane of
\* direction both exactly with centre_turn_lane=yes, then n - half motor
\* lanes of the direction of the right side.
C8_TravelLaneSplit ==
    pc = After("driveways") =>
        LET n == travel_lane_number(road)
            h == IF road.driving_side = RIGHT
                 THEN n \div 2 ELSE (n + 1) \div 2
            c == IF Get(road, "centre_turn_lane") = "yes" THEN 1 ELSE 0
            matching == IF road.driving_side = RIGHT THEN "right" ELSE "left"
            dir(sd) == IF sd = matching THEN FORWARD ELSE BACKWARD
        IN  IF oneway(road)
            THEN /\ Len(lanes) = Max0(n)
                 /\ \A i \in 1..Len(lanes) :
                       lanes[i] = Lane(TRAVEL, FORWARD, MOTOR)
            ELSE /\ Len(lanes) = Max0(h) + c + Max0(n - h)
                 /\ \A i \in 1..Len(lanes) :
                       lanes[i] = Lane(TRAVEL,
                                       IF i <= h THEN dir("left")
                                       ELSE IF i = Max0(h) + c THEN BOTH
                                       ELSE dir("right"),
                                       MOTOR)

C8_Witness ==
    /\ pc = After("driveways")
    /\ ~oneway(road)
    /\ road.driving_side = LEFT
    /\ travel_lane_number(road) = 3
    /\ Get(road, "centre_turn_lane") = "yes"
    /\ Len(lanes) = 4

\* C9: the parking section inserts one parking lane at each boundary for
\* parking:lane:both parallel or diagonal, one at its boundary for a per-side
\* tag parallel or diagonal, none for any other value; the lanes of the two
\* boundaries have the resolved, opposite directions.
C9_ParkingPass ==
    pc = After("parking") =>
        LET k(sd) ==
                (IF Get(road, "parking:lane:both") \in {"parallel", "diagonal"}
                 THEN 1 ELSE 0)
                + (IF Get(road, "parking:lane:" \o sd)
                        \in {"parallel", "diagonal"}
                   THEN 1 ELSE 0)
            matching == IF road.driving_side = RIGHT THEN "right" ELSE "left"
            dir(sd) == IF sd = matching THEN FORWARD ELSE BACKWARD
        IN  lanes = Repeat(Lane(PARKING, dir("left"), MOTOR), k("left"))
                       \o before
                       \o Repeat(Lane(PARKING, dir("right"), MOTOR), k("right"))

\* C10: get_extra_lanes is 2 for a both-sides bus lane plus 1 for each tagged
\* side, and so the number of bus lanes the bus section inserts.
C10_BusClaimedLanes ==
    pc = After("bus") =>
        /\ get_extra_lanes(road) = ClaimedByBusTags(road)
        /\ get_extra_lanes(road)
              = Cardinality({i \in 1..Len(lanes) : IsBusLane(lanes[i])})

====
